---------------------------- MODULE Spec2Model ----------------------------
(***************************************************************************)
(* A model of scripts/balltest: the two "entity in a rotating hexagon"     *)
(* simulations (hex_test.py, loftwah.py) and the snake game (nibbles.py).  *)
(*                                                                         *)
(* Arithmetic.  The scripts compute in binary floating point.  The model   *)
(* computes in fixed point: a length or a velocity component is an integer *)
(* number of 1/Scale pixels, a unit vector or a cosine an integer number   *)
(* of 1/TrigScale, and every division rounds to the nearest integer, as a  *)
(* floating-point operation rounds to the nearest representable number.    *)
(* Statements that are equalities of real numbers are therefore stated     *)
(* with the rounding error of the operations as a tolerance.               *)
(***************************************************************************)
EXTENDS Integers, Sequences, FiniteSets, TLC

VARIABLES
    \* ---- hex_test.py / loftwah.py
    prog,        \* which script runs: "hex_test", "loftwah" or "nibbles"
    hex_angle,   \* hex_angle, degrees
    pos,         \* ball_pos / (pos_x, pos_y), in 1/Scale pixels
    vel,         \* ball_vel / (vel_x, vel_y), in 1/Scale pixels per frame
    angle,       \* loftwah.py: rotation angle of the text, degrees
    frame,       \* number of iterations of the main loop so far
    hits,        \* history: the reflections applied by the last iteration, in order
    \* ---- nibbles.py
    state, snake, snake_dir, food, score, session_high_score, high_scores,
    file,        \* contents of high_scores.txt: a sequence of lines (digit sequences)
    running,     \* the loop flag of the running script
    pc,          \* "loop": the main loop runs; "exited": the script has ended
    moveDirs,    \* history: directions of the last two calls of move_snake in this game
    finished,    \* history: scores of the games that ended in game over
    moves        \* number of calls of move_snake so far

simVars   == <<prog, hex_angle, pos, vel, angle, frame, hits>>
snakeVars == <<state, snake, snake_dir, food, score, session_high_score,
               high_scores, file, moveDirs, finished, moves>>
vars      == <<prog, hex_angle, pos, vel, angle, frame, hits, running, pc,
               state, snake, snake_dir, food, score, session_high_score,
               high_scores, file, moveDirs, finished, moves>>

---------------------------------------------------------------------------
(* Bounds of the model *)
MaxFrames == 200      \* iterations of the simulation loop explored
MaxMoves  == 8        \* calls of move_snake explored
TextW     == 130      \* width of the rendered text surface (font dependent)
TextH     == 42       \* height of the rendered text surface (font dependent)

(* Program constants *)
width          == 800
height         == 600
hex_size       == 200
rotation_speed == 2
ball_radius    == 10
VelMax         == 3       \* random.uniform(-3, 3)
TextSpin       == 5       \* angle += 5

(* Fixed-point resolution *)
Scale     == 100
TrigScale == 10000

---------------------------------------------------------------------------
(* Arithmetic helpers *)
Abs(x) == IF x < 0 THEN -x ELSE x
Max2(a, b) == IF a >= b THEN a ELSE b

\* a / b rounded to the nearest integer (b > 0)
RDiv(a, b) == (a + (b \div 2)) \div b

RECURSIVE IsqrtIter(_, _, _)
IsqrtIter(n, lo, hi) ==
    IF lo >= hi THEN lo
    ELSE LET mid == (lo + hi + 1) \div 2
         IN  IF mid * mid <= n THEN IsqrtIter(n, mid, hi)
                               ELSE IsqrtIter(n, lo, mid - 1)

\* math.sqrt, rounded to the nearest integer
Sqrt(n) ==
    LET r == IsqrtIter(n, 0, 46340)
    IN  IF n - r * r > r THEN r + 1 ELSE r

\* math.sqrt(x**2 + y**2); large arguments are computed at a coarser
\* resolution, as a float keeps a relative precision
RECURSIVE VecLen(_)
VecLen(v) ==
    IF Abs(v[1]) < 32000 /\ Abs(v[2]) < 32000
    THEN Sqrt(v[1] * v[1] + v[2] * v[2])
    ELSE 16 * VecLen(<<v[1] \div 16, v[2] \div 16>>)

Add(a, b)  == <<a[1] + b[1], a[2] + b[2]>>
Sub(a, b)  == <<a[1] - b[1], a[2] - b[2]>>
Dot(a, b)  == a[1] * b[1] + a[2] * b[2]

CosTab ==
 << 10000,  9998,  9994,  9986,  9976,  9962,  9945,  9925,  9903,  9877,
     9848,  9816,  9781,  9744,  9703,  9659,  9613,  9563,  9511,  9455,
     9397,  9336,  9272,  9205,  9135,  9063,  8988,  8910,  8829,  8746,
     8660,  8572,  8480,  8387,  8290,  8192,  8090,  7986,  7880,  7771,
     7660,  7547,  7431,  7314,  7193,  7071,  6947,  6820,  6691,  6561,
     6428,  6293,  6157,  6018,  5878,  5736,  5592,  5446,  5299,  5150,
     5000,  4848,  4695,  4540,  4384,  4226,  4067,  3907,  3746,  3584,
     3420,  3256,  3090,  2924,  2756,  2588,  2419,  2250,  2079,  1908,
     1736,  1564,  1392,  1219,  1045,   872,   698,   523,   349,   175,
        0 >>

\* math.cos(math.radians(a)) * TrigScale, for an integer number of degrees
Cos(a) ==
    LET m == a % 360
    IN  IF m <= 90 THEN CosTab[m + 1]
        ELSE IF m <= 180 THEN -CosTab[180 - m + 1]
        ELSE IF m <= 270 THEN -CosTab[m - 180 + 1]
        ELSE CosTab[360 - m + 1]

\* math.sin(math.radians(a)) * TrigScale
Sin(a) == Cos(a - 90)

---------------------------------------------------------------------------
(* hex_test.py, loftwah.py: geometry *)
center == <<width \div 2, height \div 2>>

get_hexagon_vertices(c, size, a) ==
    [i \in 1..6 |->
        <<c[1] * Scale + RDiv(size * Scale * Cos(a + 60 * (i - 1)), TrigScale),
          c[2] * Scale + RDiv(size * Scale * Sin(a + 60 * (i - 1)), TrigScale)>>]

\* the unit vector along v, in 1/TrigScale
UnitVec(v) ==
    LET l == VecLen(v)
    IN  <<RDiv(v[1] * TrigScale, l), RDiv(v[2] * TrigScale, l)>>

\* normal = (-line_vec[1], line_vec[0]) / norm_len
NormalOf(p1, p2) ==
    LET line_vec == Sub(p2, p1)
    IN  UnitVec(<<-line_vec[2], line_vec[1]>>)

\* proj_len = v1 . wall_unit
ProjLen(p, p1, p2) ==
    RDiv(Dot(Sub(p, p1), UnitVec(Sub(p2, p1))), TrigScale)

\* dist = |v1 - proj_len * wall_unit|
PerpDist(p, p1, p2) ==
    LET v1        == Sub(p, p1)
        wall_unit == UnitVec(Sub(p2, p1))
        proj_len  == ProjLen(p, p1, p2)
        perp_vec  == <<v1[1] - RDiv(proj_len * wall_unit[1], TrigScale),
                       v1[2] - RDiv(proj_len * wall_unit[2], TrigScale)>>
    IN  VecLen(perp_vec)

\* the collision test of the main loop: 0 <= proj_len <= wall_len, then
\* dist <= radius
HitStrict(p, p1, p2, radius) ==
    LET proj_len == ProjLen(p, p1, p2)
        wall_len == VecLen(Sub(p2, p1))
    IN  /\ 0 < proj_len /\ proj_len < wall_len
        /\ PerpDist(p, p1, p2) < radius

Hit(p, p1, p2, radius) ==
    LET proj_len == ProjLen(p, p1, p2)
        wall_len == VecLen(Sub(p2, p1))
    IN  /\ 0 <= proj_len /\ proj_len <= wall_len
        /\ PerpDist(p, p1, p2) <= radius

\* a reflection that removes the normal component instead of mirroring it
reflect_velocity_half(v, p1, p2) ==
    LET normal == NormalOf(p1, p2)
        dot    == RDiv(Dot(v, normal), TrigScale)
    IN  <<v[1] - RDiv(dot * normal[1], TrigScale),
          v[2] - RDiv(dot * normal[2], TrigScale)>>

\* reflect_velocity: the velocity returned
reflect_velocity(v, p1, p2) ==
    LET normal == NormalOf(p1, p2)
        dot    == RDiv(Dot(v, normal), TrigScale)
    IN  <<v[1] - RDiv(2 * dot * normal[1], TrigScale),
          v[2] - RDiv(2 * dot * normal[2], TrigScale)>>

\* hex_test.py reflect_velocity: the position it leaves in pos
push_out(p, p1, p2) ==
    LET normal == NormalOf(p1, p2)
        d      == RDiv(Dot(Sub(p, p1), normal), TrigScale)
        r      == ball_radius * Scale
    IN  IF Abs(d) < r
        THEN <<p[1] + RDiv(normal[1] * (r - Abs(d)), TrigScale),
               p[2] + RDiv(normal[2] * (r - Abs(d)), TrigScale)>>
        ELSE p

---------------------------------------------------------------------------
(* hex_test.py, loftwah.py: the main loop *)

\* an integration that adds the start velocity instead of the current one
IntegrateStale(p, v) == Add(p, <<3 * Scale, 2 * Scale>>)

\* pos += vel
Integrate(p, v) == Add(p, v)

\* pygame.transform.rotate(base_text, a).get_rect(): the bounding box of the
\* text surface turned by a degrees
RotatedSize(w, h, a) ==
    <<(w * Abs(Cos(a)) + h * Abs(Sin(a))) \div TrigScale,
      (w * Abs(Sin(a)) + h * Abs(Cos(a))) \div TrigScale>>

\* max(text_rect.width, text_rect.height) / 2, in 1/Scale pixels
text_radius(a) ==
    LET rect == RotatedSize(TextW, TextH, a)
    IN  (Max2(rect[1], rect[2]) * Scale) \div 2

HitRecord(i, p, v, p2, v2, radius) ==
    [edge |-> i - 1, at |-> p, vin |-> v, after |-> p2, vout |-> v2, r |-> radius]

\* the scan with a break after the first reflection
RECURSIVE ScanFirstOnly(_, _, _, _, _, _, _)
ScanFirstOnly(i, verts, p, v, radius, corrects, h) ==
    IF i > 6 \/ h # <<>> THEN [pos |-> p, vel |-> v, hits |-> h]
    ELSE LET p1 == verts[i]
             p2 == verts[(i % 6) + 1]
         IN  IF Hit(p, p1, p2, radius)
             THEN LET v2 == reflect_velocity(v, p1, p2)
                      q  == IF corrects THEN push_out(p, p1, p2) ELSE p
                  IN  ScanFirstOnly(i + 1, verts, q, v2, radius, corrects,
                                    Append(h, HitRecord(i, p, v, q, v2, radius)))
             ELSE ScanFirstOnly(i + 1, verts, p, v, radius, corrects, h)

\* for i in range(6): ... if 0 <= proj_len <= wall_len: ... if dist <= radius:
\*     vel = reflect_velocity(pos, vel, p1, p2)
\* corrects: reflect_velocity also moves pos (hex_test.py); in loftwah.py it
\* has no such step and is handed a fresh list.
RECURSIVE ScanEdges(_, _, _, _, _, _, _)
ScanEdges(i, verts, p, v, radius, corrects, h) ==
    IF i > 6 THEN [pos |-> p, vel |-> v, hits |-> h]
    ELSE LET p1 == verts[i]
             p2 == verts[(i % 6) + 1]
         IN  IF Hit(p, p1, p2, radius)
             THEN LET v2 == reflect_velocity(v, p1, p2)
                      q  == IF corrects THEN push_out(p, p1, p2) ELSE p
                  IN  ScanEdges(i + 1, verts, q, v2, radius, corrects,
                                Append(h, HitRecord(i, p, v, q, v2, radius)))
             ELSE ScanEdges(i + 1, verts, p, v, radius, corrects, h)

\* hex_angle += rotation_speed, wrapped
AdvanceAngleWrapped(a) == (a + rotation_speed) % 360

\* hex_angle += rotation_speed
AdvanceAngle(a) == a + rotation_speed

\* the rest of an iteration of the main loop of hex_test.py, after its events;
\* the loop ends after the iteration that saw QUIT
StepHexTest ==
    /\ prog = "hex_test" /\ pc = "loop" /\ frame < MaxFrames
    /\ LET a     == AdvanceAngle(hex_angle)
           verts == get_hexagon_vertices(center, hex_size, a)
           s     == ScanEdges(1, verts, Integrate(pos, vel), vel,
                              ball_radius * Scale, TRUE, <<>>)
       IN  /\ hex_angle' = a
           /\ pos' = s.pos
           /\ vel' = s.vel
           /\ hits' = s.hits
    /\ frame' = frame + 1
    /\ pc' = IF running THEN "loop" ELSE "exited"
    /\ UNCHANGED <<prog, angle, running>>
    /\ UNCHANGED snakeVars

\* the rest of an iteration of the main loop of loftwah.py, after its events
StepLoftwah ==
    /\ prog = "loftwah" /\ pc = "loop" /\ frame < MaxFrames
    /\ LET a     == AdvanceAngle(hex_angle)
           verts == get_hexagon_vertices(center, hex_size, a)
           s     == ScanEdges(1, verts, Integrate(pos, vel), vel,
                              text_radius(angle), FALSE, <<>>)
       IN  /\ hex_angle' = a
           /\ pos' = s.pos
           /\ vel' = s.vel
           /\ hits' = s.hits
    /\ angle' = IF angle + TextSpin >= 360 THEN angle + TextSpin - 360
                                           ELSE angle + TextSpin
    /\ frame' = frame + 1
    /\ pc' = IF running THEN "loop" ELSE "exited"
    /\ UNCHANGED <<prog, running>>
    /\ UNCHANGED snakeVars

\* for event in pygame.event.get(): if event.type == pygame.QUIT: running = False
QuitSim ==
    /\ prog # "nibbles" /\ pc = "loop" /\ running
    /\ running' = FALSE
    /\ UNCHANGED <<simVars, pc>>
    /\ UNCHANGED snakeVars

\* nibbles.py is not running
SnakeIdle ==
    /\ state = 0 /\ snake = <<>> /\ snake_dir = <<0, 0>> /\ food = <<0, 0>>
    /\ score = 0 /\ session_high_score = 0 /\ high_scores = <<>>
    /\ file = <<>> /\ moveDirs = <<>> /\ finished = <<>> /\ moves = 0

InitHexTest ==
    /\ prog = "hex_test"
    /\ hex_angle = 0
    /\ pos = <<(width \div 2) * Scale, (height \div 2 - 100) * Scale>>
    /\ vel = <<3 * Scale, 2 * Scale>>
    /\ angle = 0

InitLoftwah ==
    /\ prog = "loftwah"
    /\ hex_angle = 0
    /\ pos = <<(width \div 2) * Scale, (height \div 2) * Scale>>
    /\ vel \in {<<x * Scale, y * Scale>> : x \in -VelMax..VelMax, y \in -VelMax..VelMax}
    /\ angle = 0

InitSim ==
    /\ InitHexTest \/ InitLoftwah
    /\ frame = 0 /\ hits = <<>> /\ running = TRUE /\ pc = "loop"
    /\ SnakeIdle

NextSim == StepHexTest \/ StepLoftwah \/ QuitSim

Spec == InitSim /\ [][NextSim]_vars

---------------------------------------------------------------------------
(* Quantities the properties are stated with *)

\* rounding tolerances of the fixed-point arithmetic: 0.05 pixel for a
\* position, 0.04 pixel per frame for a velocity component
Eps    == Scale \div 20
VelTol == Scale \div 25

\* the vertices of the current frame
Vertices == get_hexagon_vertices(center, hex_size, hex_angle)
EdgeP1(e) == Vertices[e + 1]
EdgeP2(e) == Vertices[((e + 1) % 6) + 1]

\* perpendicular distance from p to the line through p1 and p2, by the cross
\* product
LineDist(p, p1, p2) ==
    LET w == Sub(p2, p1)
        v == Sub(p, p1)
    IN  RDiv(Abs(w[1] * v[2] - w[2] * v[1]), VecLen(w))

\* the perpendicular of the edge that points away from the polygon's centre
OutwardPerp(p1, p2) ==
    LET w == Sub(p2, p1)
        c == <<center[1] * Scale, center[2] * Scale>>
        n == <<w[2], -w[1]>>
    IN  IF Dot(n, Sub(p1, c)) >= 0 THEN n ELSE <<-n[1], -n[2]>>

\* the component of v along the unit outward normal of the edge
OutComp(v, p1, p2) ==
    LET n == OutwardPerp(p1, p2)
        d == Dot(v, n)
        l == VecLen(n)
    IN  IF d >= 0 THEN RDiv(d, l) ELSE -RDiv(-d, l)

HitEdges == {hits[k].edge : k \in 1..Len(hits)}

\* the position edge e was tested against in the last scan: the position left
\* by the last reflection at a lower index, or else the position the scan
\* started with
PosAtScan(e) ==
    LET before == {k \in 1..Len(hits) : hits[k].edge < e}
    IN  IF before = {} THEN hits[1].at
        ELSE hits[CHOOSE k \in before : \A j \in before : j <= k].after

---------------------------------------------------------------------------
(* C1 *)

\* C1 as stated: in one frame at most one reflection is applied; after the
\* first edge that qualifies, no later edge changes velocity or position.
C1_AtMostOneReflection == Len(hits) <= 1

\* C1, amended: the scan has no break.  The edges are scanned in index order
\* and every edge that qualifies against the position held when it is scanned
\* is reflected, so a frame can apply two reflections.
C1_EveryQualifyingEdgeReflected ==
    hits # <<>> =>
        /\ \A k \in 1..(Len(hits) - 1) : hits[k].edge < hits[k + 1].edge
        /\ \A e \in 0..5 :
              e \in HitEdges <=> Hit(PosAtScan(e), EdgeP1(e), EdgeP2(e), hits[1].r)

C1_Witness ==
    /\ Len(hits) = 2
    /\ hits[2].vout # hits[1].vout

---------------------------------------------------------------------------
(* C2 *)

\* C2 as stated: the velocity returned by reflect_velocity has a non-negative
\* component along the outward normal of the edge.
C2_OutwardComponentNonNegative ==
    \A k \in 1..Len(hits) :
        OutComp(hits[k].vout, EdgeP1(hits[k].edge), EdgeP2(hits[k].edge)) >= 0

\* C2, amended: reflect_velocity negates the component along the edge normal:
\* the returned component along the outward normal is minus the incoming one
\* (within rounding), so it is non-negative only when the entity was moving
\* away from the wall before.
C2_NormalComponentNegated ==
    \A k \in 1..Len(hits) :
        LET p1 == EdgeP1(hits[k].edge)
            p2 == EdgeP2(hits[k].edge)
        IN  Abs(OutComp(hits[k].vout, p1, p2) + OutComp(hits[k].vin, p1, p2)) <= VelTol

C2_Witness ==
    \E k \in 1..Len(hits) :
        /\ OutComp(hits[k].vin, EdgeP1(hits[k].edge), EdgeP2(hits[k].edge)) > Scale
        /\ OutComp(hits[k].vout, EdgeP1(hits[k].edge), EdgeP2(hits[k].edge)) < -Scale

---------------------------------------------------------------------------
(* C3 *)

\* C3 as stated: after a collision is resolved the entity is at perpendicular
\* distance at least the effective radius (less the rounding tolerance) from
\* the line of the edge that was hit.
C3_PushedOutToRadius ==
    \A k \in 1..Len(hits) :
        LineDist(hits[k].after, EdgeP1(hits[k].edge), EdgeP2(hits[k].edge))
            >= hits[k].r - Eps

---------------------------------------------------------------------------
(* C5 *)

\* C5: a step leaves the speed as it was: the velocity changes only in a frame
\* that reflects, and a frame's reflections (one or two) keep its magnitude,
\* within the rounding of the arithmetic.
C5_SpeedPreserved ==
    [][/\ hits' = <<>> => vel' = vel
       /\ Abs(VecLen(vel') - VecLen(vel)) <= 2 * VelTol]_vars

C5_Witness ==
    /\ Len(hits) >= 2
    /\ vel # hits[1].vin
    /\ Abs(VecLen(vel) - VecLen(hits[1].vin)) <= 2 * VelTol

---------------------------------------------------------------------------
(* C7 *)

\* C7 as stated: after every step the rotation angle is in [0, 360).
C7_AngleWrapped == hex_angle >= 0 /\ hex_angle < 360

\* C7, amended: the rotation angle is advanced by the fixed increment every
\* frame and never wrapped: after n frames it is n * rotation_speed.
C7_AngleAccumulates == hex_angle = rotation_speed * frame

C7_Witness == hex_angle >= 360 /\ frame * rotation_speed >= 360

---------------------------------------------------------------------------
(* The loop body as a function of the state at the top of the loop.        *)
(* ball_pos, ball_vel (pos_x, pos_y, vel_x, vel_y) and hex_angle are       *)
(* module-level settings of the scripts; SpecFrame starts the loop from a  *)
(* bounded set of them:                                                    *)
(*  - probes: a resting entity placed so that, after the first rotation    *)
(*    step (hex_angle 30, edge 5 vertical), it lies within one unit of the *)
(*    boundary of the collision test: at distance radius -1, 0, +1 units   *)
(*    from the edge and at projection -1, 0, +1 units from either end;     *)
(*  - a resting entity near a vertex that touches no edge at hex_angle 0;  *)
(*  - moving entities, among them the start state of hex_test.py.          *)

V30 == get_hexagon_vertices(center, hex_size, 30)

ProbePositions(radius) ==
    {<<V30[6][1] - radius + dx, y + dy>> :
        dx \in -1..1, dy \in -1..1, y \in {V30[6][2], V30[1][2]}}
    \cup {<<V30[6][1] - radius + dx, center[2] * Scale>> : dx \in -1..1}

FrameStarts ==
    [prog : {"hex_test"}, hex_angle : {28}, vel : {<<0, 0>>},
     pos : ProbePositions(ball_radius * Scale)]
    \cup
    [prog : {"loftwah"}, hex_angle : {28}, vel : {<<0, 0>>},
     pos : ProbePositions(text_radius(0))]
    \cup
    [prog : {"hex_test", "loftwah"}, hex_angle : {0}, vel : {<<0, 0>>},
     pos : {<<580 * Scale, 300 * Scale>>, <<400 * Scale, 300 * Scale>>}]
    \cup
    [prog : {"hex_test", "loftwah"}, hex_angle : {0},
     vel : {<<3 * Scale, 2 * Scale>>, <<-3 * Scale, Scale>>},
     pos : {<<400 * Scale, 200 * Scale>>, <<400 * Scale, 300 * Scale>>}]

InitFrame ==
    /\ \E st \in FrameStarts :
          /\ prog = st.prog /\ hex_angle = st.hex_angle
          /\ pos = st.pos /\ vel = st.vel
    /\ angle = 0 /\ frame = 0 /\ hits = <<>> /\ running = TRUE /\ pc = "loop"
    /\ SnakeIdle

SpecFrame == InitFrame /\ [][NextSim]_vars

\* the effective radius of the last scan
LastRadius ==
    IF prog = "hex_test" THEN ball_radius * Scale
    ELSE text_radius((angle - TextSpin) % 360)

\* the position edge e was tested against in the last scan
ScannedAt(e) == IF hits = <<>> THEN pos ELSE PosAtScan(e)

\* some edge of the current polygon is within the effective radius of pos
Touching ==
    \E e \in 0..5 :
        Hit(pos, EdgeP1(e), EdgeP2(e),
            IF prog = "hex_test" THEN ball_radius * Scale ELSE text_radius(angle))

---------------------------------------------------------------------------
(* C4 *)

---------------------------------------------------------------------------
(* C8 *)

\* projection of (p - p1) on the edge direction, from the edge vector itself
EdgeProj(p, p1, p2) ==
    LET w == Sub(p2, p1)
        d == Dot(Sub(p, p1), w)
        l == VecLen(w)
    IN  IF d >= 0 THEN RDiv(d, l) ELSE -RDiv(-d, l)

AxisAligned(p1, p2) == p1[1] = p2[1] \/ p1[2] = p2[2]

\* C8: an edge is treated as hit exactly when 0 <= t <= L and d <= radius,
\* t the projection on the edge and d the perpendicular distance to its line
\* (here computed from the edge vector and the cross product): a hit implies
\* both within the rounding tolerance, both with the tolerance to spare imply
\* a hit, and on an axis-aligned edge, where the arithmetic is exact, the
\* equivalence is exact, with both comparisons inclusive.
C8_HitIffWithinSegmentAndRadius ==
    frame > 0 =>
      \A e \in 0..5 :
        LET p1 == EdgeP1(e)
            p2 == EdgeP2(e)
            p  == ScannedAt(e)
            t  == EdgeProj(p, p1, p2)
            L  == VecLen(Sub(p2, p1))
            d  == LineDist(p, p1, p2)
            r  == LastRadius
        IN  /\ e \in HitEdges => (-Eps <= t /\ t <= L + Eps /\ d <= r + Eps)
            /\ (Eps <= t /\ t <= L - Eps /\ d <= r - Eps) => e \in HitEdges
            /\ AxisAligned(p1, p2) =>
                  (e \in HitEdges <=> (0 <= t /\ t <= L /\ d <= r))

C8_Witness ==
    /\ frame = 1 /\ 5 \in HitEdges
    /\ AxisAligned(EdgeP1(5), EdgeP2(5))
    /\ LineDist(ScannedAt(5), EdgeP1(5), EdgeP2(5)) = LastRadius
    /\ EdgeProj(ScannedAt(5), EdgeP1(5), EdgeP2(5)) = 0

---------------------------------------------------------------------------
(* nibbles.py *)
WIDTH      == 800
HEIGHT     == 600
BLOCK_SIZE == 20
MENU       == 0
PLAYING    == 1
GAME_OVER  == 2

\* f"{score}": the decimal digits of n >= 0
RECURSIVE Format(_)
Format(n) == IF n < 10 THEN <<n>> ELSE Append(Format(n \div 10), n % 10)

\* int(line.strip())
RECURSIVE Parse(_)
Parse(line) ==
    IF Len(line) = 1 THEN line[1]
    ELSE 10 * Parse(SubSeq(line, 1, Len(line) - 1)) + line[Len(line)]

\* [...][:3]
FirstThree(seq) == SubSeq(seq, 1, IF Len(seq) < 3 THEN Len(seq) ELSE 3)

\* load_high_scores: the numbers of the first three lines
load_high_scores(f) == FirstThree([k \in 1..Len(f) |-> Parse(f[k])])

\* sorted(scores, reverse=True)
RECURSIVE SortedDesc(_)
SortedDesc(seq) ==
    IF seq = <<>> THEN <<>>
    ELSE LET k == CHOOSE i \in 1..Len(seq) : \A j \in 1..Len(seq) : seq[j] <= seq[i]
             rest == [j \in 1..(Len(seq) - 1) |-> IF j < k THEN seq[j] ELSE seq[j + 1]]
         IN  <<seq[k]>> \o SortedDesc(rest)

\* a save that keeps the first three scores of the list as they stand
save_unsorted(scores) ==
    LET top == FirstThree(scores)
    IN  [k \in 1..Len(top) |-> Format(top[k])]

\* save_high_scores: the lines written to the file
save_high_scores(scores) ==
    LET top == FirstThree(SortedDesc(scores))
    IN  [k \in 1..Len(top) |-> Format(top[k])]

\* the cells random.randint can return for the food, restricted to a window at
\* the start cell
FoodCells ==
    {<<WIDTH \div 2 + i * BLOCK_SIZE, HEIGHT \div 2 + j * BLOCK_SIZE>> :
        i \in 1..2, j \in 0..1}

InSeq(x, seq) == \E k \in 1..Len(seq) : seq[k] = x

\* move_snake without the score increment
move_result_no_score(snk, dir, fd, sc) ==
    LET new_head == <<(snk[1][1] + dir[1]) % WIDTH, (snk[1][2] + dir[2]) % HEIGHT>>
    IN  IF InSeq(new_head, snk)
        THEN [over |-> TRUE, snake |-> snk, score |-> sc, ate |-> FALSE]
        ELSE IF new_head = fd
        THEN [over |-> FALSE, snake |-> <<new_head>> \o snk, score |-> sc, ate |-> TRUE]
        ELSE [over |-> FALSE,
              snake |-> <<new_head>> \o SubSeq(snk, 1, Len(snk) - 1),
              score |-> sc, ate |-> FALSE]

\* move_snake: what it does to the snake and the score
move_result(snk, dir, fd, sc) ==
    LET new_head == <<(snk[1][1] + dir[1]) % WIDTH, (snk[1][2] + dir[2]) % HEIGHT>>
    IN  IF InSeq(new_head, snk)
        THEN [over |-> TRUE, snake |-> snk, score |-> sc, ate |-> FALSE]
        ELSE IF new_head = fd
        THEN [over |-> FALSE, snake |-> <<new_head>> \o snk, score |-> sc + 1, ate |-> TRUE]
        ELSE [over |-> FALSE,
              snake |-> <<new_head>> \o SubSeq(snk, 1, Len(snk) - 1),
              score |-> sc, ate |-> FALSE]

SimIdle ==
    /\ hex_angle = 0 /\ pos = <<0, 0>> /\ vel = <<0, 0>> /\ angle = 0
    /\ frame = 0 /\ hits = <<>>

\* module level of nibbles.py with high_scores.txt absent
InitSnake ==
    /\ prog = "nibbles" /\ SimIdle
    /\ file = <<Format(0), Format(0), Format(0)>>
    /\ state = MENU
    /\ snake = <<<<WIDTH \div 2, HEIGHT \div 2>>>>
    /\ snake_dir = <<BLOCK_SIZE, 0>>
    /\ food \in FoodCells
    /\ score = 0 /\ session_high_score = 0
    /\ high_scores = load_high_scores(file)
    /\ running = TRUE /\ pc = "loop"
    /\ moveDirs = <<>> /\ finished = <<>> /\ moves = 0

\* reset_game
reset_game ==
    /\ snake' = <<<<WIDTH \div 2, HEIGHT \div 2>>>>
    /\ snake_dir' = <<BLOCK_SIZE, 0>>
    /\ food' \in FoodCells
    /\ score' = 0
    /\ moveDirs' = <<>>

\* event.type == pygame.QUIT
QuitEvent ==
    /\ prog = "nibbles" /\ pc = "loop" /\ running
    /\ running' = FALSE
    /\ UNCHANGED <<simVars, pc, snakeVars>>

\* KEYDOWN in MENU: K_s
MenuStart ==
    /\ prog = "nibbles" /\ pc = "loop" /\ state = MENU
    /\ reset_game
    /\ state' = PLAYING
    /\ UNCHANGED <<simVars, running, pc, session_high_score, high_scores,
                   file, finished, moves>>

\* KEYDOWN in MENU: K_q
MenuQuit ==
    /\ prog = "nibbles" /\ pc = "loop" /\ state = MENU /\ running
    /\ running' = FALSE
    /\ UNCHANGED <<simVars, pc, snakeVars>>

\* KEYDOWN while PLAYING: an arrow key turns the snake unless snake_dir is the
\* opposite direction
Turn(dir) ==
    /\ prog = "nibbles" /\ pc = "loop" /\ state = PLAYING
    /\ snake_dir # <<-dir[1], -dir[2]>>
    /\ snake_dir' = dir
    /\ UNCHANGED <<simVars, running, pc, state, snake, food, score,
                   session_high_score, high_scores, file, moveDirs, finished, moves>>

KeyUp    == Turn(<<0, -BLOCK_SIZE>>)
KeyDown  == Turn(<<0, BLOCK_SIZE>>)
KeyLeft  == Turn(<<-BLOCK_SIZE, 0>>)
KeyRight == Turn(<<BLOCK_SIZE, 0>>)

\* KEYDOWN in GAME_OVER: K_r
GameOverRestart ==
    /\ prog = "nibbles" /\ pc = "loop" /\ state = GAME_OVER
    /\ reset_game
    /\ state' = PLAYING
    /\ UNCHANGED <<simVars, running, pc, session_high_score, high_scores,
                   file, finished, moves>>

\* KEYDOWN in GAME_OVER: K_m
GameOverMenu ==
    /\ prog = "nibbles" /\ pc = "loop" /\ state = GAME_OVER
    /\ state' = MENU
    /\ UNCHANGED <<simVars, running, pc, snake, snake_dir, food, score,
                   session_high_score, high_scores, file, moveDirs, finished, moves>>

\* the update at the end of an iteration while PLAYING: move_snake(); the loop
\* ends after the iteration that cleared running
UpdatePlaying ==
    /\ prog = "nibbles" /\ pc = "loop" /\ state = PLAYING /\ moves < MaxMoves
    /\ LET m == move_result(snake, snake_dir, food, score)
       IN  /\ snake' = m.snake
           /\ score' = m.score
           /\ food' \in (IF m.ate THEN FoodCells ELSE {food})
           /\ IF m.over
              THEN /\ session_high_score' = Max2(session_high_score, score)
                   /\ high_scores' = Append(high_scores, score)
                   /\ file' = save_high_scores(Append(high_scores, score))
                   /\ state' = GAME_OVER
                   /\ finished' = Append(finished, score)
              ELSE UNCHANGED <<session_high_score, high_scores, file, state, finished>>
    /\ moveDirs' = IF moveDirs = <<>> THEN <<snake_dir>>
                   ELSE <<moveDirs[Len(moveDirs)], snake_dir>>
    /\ moves' = moves + 1
    /\ pc' = IF running THEN "loop" ELSE "exited"
    /\ UNCHANGED <<simVars, running, snake_dir>>

\* the end of an iteration in MENU or GAME_OVER after running was cleared
EndLoop ==
    /\ prog = "nibbles" /\ pc = "loop" /\ state # PLAYING /\ ~running
    /\ pc' = "exited"
    /\ UNCHANGED <<simVars, running, snakeVars>>

\* the script is started again: module level of nibbles.py with the file present
Relaunch ==
    /\ prog = "nibbles" /\ pc = "exited"
    /\ state' = MENU
    /\ snake' = <<<<WIDTH \div 2, HEIGHT \div 2>>>>
    /\ snake_dir' = <<BLOCK_SIZE, 0>>
    /\ food' \in FoodCells
    /\ score' = 0 /\ session_high_score' = 0
    /\ high_scores' = load_high_scores(file)
    /\ running' = TRUE /\ pc' = "loop"
    /\ moveDirs' = <<>>
    /\ UNCHANGED <<simVars, file, finished, moves>>

NextSnake ==
    \/ QuitEvent \/ MenuStart \/ MenuQuit
    \/ KeyUp \/ KeyDown \/ KeyLeft \/ KeyRight
    \/ GameOverRestart \/ GameOverMenu
    \/ UpdatePlaying \/ EndLoop \/ Relaunch

SpecSnake == InitSnake /\ [][NextSnake]_vars

---------------------------------------------------------------------------
(* C6 *)

FileValues == [k \in 1..Len(file) |-> Parse(file[k])]

\* the defaults and the scores of all finished games
AllScores == <<0, 0, 0>> \o finished

Count(seq, v) == Cardinality({k \in 1..Len(seq) : seq[k] = v})

\* C6: the file holds exactly three integers in descending order, and they are
\* the three largest among the three defaults and the scores of all finished
\* games: each value is in the file no more often than among those scores, and
\* every value above the smallest of the file is in the file as often.
C6_FileHoldsTopThree ==
    /\ Len(file) = 3
    /\ FileValues[1] >= FileValues[2] /\ FileValues[2] >= FileValues[3]
    /\ \A k \in 1..Len(AllScores) :
          LET v == AllScores[k]
          IN  /\ v > FileValues[3] => Count(FileValues, v) = Count(AllScores, v)
              /\ v < FileValues[3] => Count(FileValues, v) = 0
    /\ \A k \in 1..3 : Count(FileValues, FileValues[k]) <= Count(AllScores, FileValues[k])

C6_Witness ==
    /\ Len(finished) = 3
    /\ FileValues = <<2, 1, 1>>
    /\ pc = "loop" /\ high_scores = <<2, 1, 1>>

---------------------------------------------------------------------------
(* C9 *)

\* C9 as stated: the direction used by a call of move_snake is never the exact
\* opposite of the direction used by the previous call in the same game.
C9_NoReversalBetweenMoves ==
    Len(moveDirs) = 2 =>
        moveDirs[2] # <<-moveDirs[1][1], -moveDirs[1][2]>>

---------------------------------------------------------------------------
(* C10 *)

\* C10: the number of snake segments equals score + 1 in every state.
C10_LengthIsScorePlusOne == Len(snake) = score + 1

C10_Witness ==
    /\ state = GAME_OVER /\ score = 2 /\ Len(snake) = 3
    /\ finished # <<>>

=============================================================================
